---- MODULE Spec2Model ----
(***************************************************************************)
(* A model of notebooks/exploring_gemini_25_tts.ipynb: the text chunker    *)
(* split_text_to_chunks, the cost estimator cost_estimator, the audio      *)
(* assembler save_mp3_file, and the cell that calls the text-to-speech     *)
(* service once per chunk and hands the collected buffers to               *)
(* save_mp3_file.                                                          *)
(*                                                                         *)
(* A Python str handed to split_text_to_chunks, or read and sent by the     *)
(* notebook, is held run-length encoded: a sequence of runs <<c, n>>, the   *)
(* character c repeated n >= 1 times, no two neighbouring runs of the same  *)
(* character.  Every str has exactly one such form, so two texts are equal  *)
(* exactly when their forms are; a text of 28000 characters is a few runs.  *)
(* The short texts of cost_estimator are sequences of one-character         *)
(* strings, a bytes object is a sequence of integers.                       *)
(***************************************************************************)
EXTENDS Integers, Sequences, FiniteSets, TLC

VARIABLES
    pc,                 \* position of the running cell or function
    text,               \* split_text_to_chunks: its argument text
    max_tokens,         \* split_text_to_chunks: its argument max_tokens
    token_chars,        \* split_text_to_chunks: its argument token_chars
    max_chars,          \* split_text_to_chunks: local max_chars
    chunks,             \* split_text_to_chunks: local chunks
    start,              \* split_text_to_chunks: local start
    cost_texts,         \* the texts cost_estimator is called with, in turn
    cost_frames,        \* cost_estimator: its locals at each return
    cost_results,       \* cost_estimator: the dicts returned
    bufs,               \* the buffers save_mp3_file is tried on
    save_log,           \* the calls of save_mp3_file made so far
    files,              \* the files written: name and encoded audio
    content,            \* the text read from TEXT_FILE_PATH
    content_by_chunks,  \* the chunks of content
    tts_responses,      \* the audio buffers collected so far
    idx,                \* the index of the chunk the loop is at
    response,           \* the response of the last API call
    now,                \* seconds since the run began
    api_calls,          \* the API calls made so far
    sleeps              \* the calls of time.sleep made so far

splitVars == <<text, max_tokens, token_chars, max_chars, chunks, start>>

costVars == <<cost_texts, cost_frames, cost_results>>

saveVars == <<bufs, save_log>>

pipeVars == <<content, content_by_chunks, tts_responses, idx, response, now,
              api_calls, sleeps>>

vars == <<pc, splitVars, costVars, saveVars, files, pipeVars>>

----------------------------------------------------------------------------
(* Bounds of the model *)

\* longest text drawn for split_text_to_chunks
MaxLen == 4

\* iterations after which a loop that cannot end is cut off
MaxIter == 6

\* longest text drawn for cost_estimator
MaxCostLen == 3

\* most buffers in a list handed to save_mp3_file
MaxBufs == 2

\* longest buffer handed to save_mp3_file
MaxBufLen == 2

\* most chunks the text read by the notebook splits into
MaxPipeChunks == 2

----------------------------------------------------------------------------
(* Python helpers *)

Min(a, b) == IF a <= b THEN a ELSE b

Max(a, b) == IF a >= b THEN a ELSE b

\* the characters texts are drawn from: two letters and two whitespace
Chars == {"a", "b", " ", "\n"}

\* str.isspace() on the characters of the model
IsSpace(c) == c \in {" ", "\n", "\t"}

\* all texts of length at most n over the set S
TextsUpTo(S, n) == UNION {[1..k -> S] : k \in 0..n}

\* the number of characters of the first k runs of t
UpTo(t, k) ==
    LET sum[r \in 0..k] == IF r = 0 THEN 0 ELSE sum[r - 1] + t[r][2]
    IN  sum[k]

\* len(t) of a run-length encoded text
TLen(t) == UpTo(t, Len(t))

\* the number of characters of t before its k-th run
Before(t, k) == UpTo(t, k - 1)

\* t[i - 1] of Python: the i-th character of t, i counted from 1
CharAt(t, i) ==
    LET k == CHOOSE r \in 1..Len(t) :
                 Before(t, r) < i /\ i <= Before(t, r) + t[r][2]
    IN  t[k][1]

\* a + b for two texts: the runs that meet are merged when of one character
TCat(a, b) ==
    IF Len(a) = 0 THEN b
    ELSE IF Len(b) = 0 THEN a
    ELSE IF a[Len(a)][1] = b[1][1]
         THEN SubSeq(a, 1, Len(a) - 1)
                 \o << <<b[1][1], a[Len(a)][2] + b[1][2]>> >> \o Tail(b)
         ELSE a \o b

\* the run-length form of a sequence of characters: a run begins wherever
\* the character differs from the one before
ToText(s) ==
    LET starts   == {i \in 1..Len(s) : i = 1 \/ s[i] # s[i - 1]}
        runs     == Cardinality(starts)
        first(k) == CHOOSE i \in starts :
                        Cardinality({j \in starts : j < i}) = k - 1
        last(k)  == IF k = runs THEN Len(s) ELSE first(k + 1) - 1
    IN  [k \in 1..runs |-> <<s[first(k)], last(k) - first(k) + 1>>]

\* the sequence of characters of a text
RECURSIVE Expand(_)
Expand(t) ==
    IF Len(t) = 0 THEN <<>>
    ELSE [i \in 1..Head(t)[2] |-> Head(t)[1]] \o Expand(Tail(t))

\* t[i:j] of Python, negative indices counted from the end: of every run the
\* part that lies in the slice
PySlice(t, i, j) ==
    LET n   == TLen(t)
        lo  == IF i < 0 THEN Max(i + n, 0) ELSE Min(i, n)
        hi  == IF j < 0 THEN Max(j + n, 0) ELSE Min(j, n)
        cut == [k \in 1..Len(t) |->
                  <<t[k][1],
                    Min(hi, Before(t, k) + t[k][2]) - Max(lo, Before(t, k))>>]
    IN  SelectSeq(cut, LAMBDA r : r[2] > 0)

\* str.rstrip(): trailing whitespace removed, that is every run after the
\* last run of a character that is no whitespace
RStrip(t) ==
    LET solid == {k \in 1..Len(t) : ~IsSpace(t[k][1])}
    IN  IF solid = {} THEN <<>>
        ELSE SubSeq(t, 1, CHOOSE k \in solid : \A r \in solid : r <= k)

\* str.split() with no argument: the maximal runs of non-whitespace, in order
SplitWords(s) ==
    LET starts == {i \in 1..Len(s) :
                      ~IsSpace(s[i]) /\ (i = 1 \/ IsSpace(s[i - 1]))}
        ends   == {i \in 1..Len(s) :
                      ~IsSpace(s[i]) /\ (i = Len(s) \/ IsSpace(s[i + 1]))}
        kth(S, k) == CHOOSE i \in S : Cardinality({j \in S : j < i}) = k - 1
    IN  [k \in 1..Cardinality(starts) |-> SubSeq(s, kth(starts, k), kth(ends, k))]

\* " ".join(words)
RECURSIVE JoinWords(_)
JoinWords(words) ==
    IF Len(words) = 0 THEN <<>>
    ELSE IF Len(words) = 1 THEN words[1]
    ELSE words[1] \o <<" ">> \o JoinWords(Tail(words))

\* "".join(parts), also b"".join(parts)
RECURSIVE Join(_)
Join(parts) == IF Len(parts) = 0 THEN <<>> ELSE Head(parts) \o Join(Tail(parts))

\* the "\n\n" appended to every chunk
Marker == << <<"\n", 2>> >>

----------------------------------------------------------------------------
(* Parts of the notebook that a specification leaves unused *)

SplitIdle ==
    /\ text = <<>>
    /\ max_tokens = 0
    /\ token_chars = 0
    /\ max_chars = 0
    /\ chunks = <<>>
    /\ start = 0

CostIdle ==
    /\ cost_texts = <<>>
    /\ cost_frames = <<>>
    /\ cost_results = <<>>

SaveIdle ==
    /\ bufs = <<>>
    /\ save_log = <<>>
    /\ files = {}

NoResponse == [kind |-> "none", data |-> <<>>]

PipeIdle ==
    /\ content = <<>>
    /\ content_by_chunks = <<>>
    /\ tts_responses = <<>>
    /\ idx = 0
    /\ response = NoResponse
    /\ now = 0
    /\ api_calls = <<>>
    /\ sleeps = <<>>

----------------------------------------------------------------------------
(* split_text_to_chunks *)

DEFAULT_MAX_TOKENS == 7000

DEFAULT_TOKEN_CHARS == 4

\* the loop's condition, and a variant that takes one round too many
LoopCondLe(st, t) == st <= TLen(t)

LoopCond(st, t) == st < TLen(t)

\* one iteration of the loop: the chunk appended and the new start.
\* Variants: a slice one character too wide, a start that skips a
\* character, a chunk without the marker.
LoopBodyWide(t, mc, st) ==
    LET end == Min(st + mc + 1, TLen(t))
    IN  [chunk |-> TCat(RStrip(PySlice(t, st, end)), Marker), start |-> end]

LoopBodySkip(t, mc, st) ==
    LET end == Min(st + mc, TLen(t))
    IN  [chunk |-> TCat(RStrip(PySlice(t, st, end)), Marker), start |-> end + 1]

LoopBodyNoMarker(t, mc, st) ==
    LET end == Min(st + mc, TLen(t))
    IN  [chunk |-> RStrip(PySlice(t, st, end)), start |-> end]

LoopBody(t, mc, st) ==
    LET end == Min(st + mc, TLen(t))
    IN  [chunk |-> TCat(RStrip(PySlice(t, st, end)), Marker), start |-> end]

\* the loop run from start st with the chunks cs collected so far
RECURSIVE SplitLoop(_, _, _, _)
SplitLoop(t, mc, st, cs) ==
    IF LoopCond(st, t)
    THEN LET b == LoopBody(t, mc, st)
         IN  SplitLoop(t, mc, b.start, Append(cs, b.chunk))
    ELSE cs

\* the function as a whole, for the arguments it returns on
split_text_to_chunks(t, mt, tc) == SplitLoop(t, mt * tc, 0, <<>>)

\* the function entered: max_chars, chunks and start set
SplitEnter ==
    /\ pc = "split_call"
    /\ max_chars' = max_tokens * token_chars
    /\ chunks' = <<>>
    /\ start' = 0
    /\ pc' = "split_loop"
    /\ UNCHANGED <<text, max_tokens, token_chars, costVars, saveVars, files, pipeVars>>

\* one iteration of the while loop
SplitIterate ==
    /\ pc = "split_loop"
    /\ LoopCond(start, text)
    /\ Len(chunks) < MaxIter
    /\ LET b == LoopBody(text, max_chars, start)
       IN  /\ chunks' = Append(chunks, b.chunk)
           /\ start' = b.start
    /\ UNCHANGED <<pc, text, max_tokens, token_chars, max_chars, costVars,
                   saveVars, files, pipeVars>>

\* the loop left and chunks returned
SplitReturn ==
    /\ pc = "split_loop"
    /\ ~LoopCond(start, text)
    /\ pc' = "split_done"
    /\ UNCHANGED <<splitVars, costVars, saveVars, files, pipeVars>>

\* the example of the notebook's scale: 30000 characters, a limit of 28000
LongText == << <<"a", 30000>> >>

\* the values of max_tokens and token_chars drawn: any int is accepted
MaxTokensDrawn == -1..3

TokenCharsDrawn == -1..2

\* the texts drawn: every text of at most MaxLen characters
SplitTexts == {ToText(s) : s \in TextsUpTo(Chars, MaxLen)}

SplitInit ==
    /\ pc = "split_call"
    /\ \/ /\ text \in SplitTexts
          /\ max_tokens \in MaxTokensDrawn
          /\ token_chars \in TokenCharsDrawn
       \/ /\ text = LongText
          /\ max_tokens = DEFAULT_MAX_TOKENS
          /\ token_chars = DEFAULT_TOKEN_CHARS
    /\ max_chars = 0
    /\ chunks = <<>>
    /\ start = 0
    /\ CostIdle /\ SaveIdle /\ PipeIdle

SplitNext == SplitEnter \/ SplitIterate \/ SplitReturn

SplitSpec == SplitInit /\ [][SplitNext]_vars

----------------------------------------------------------------------------
(* Properties of split_text_to_chunks *)

\* the number of characters a chunk may hold
Limit == max_tokens * token_chars

\* the length of a chunk before the two characters appended to it
BodyLen(chunk) == TLen(chunk) - 2

\* C1: with max_tokens > 0 and token_chars > 0, every chunk, measured before
\* the appended two-newline marker, is at most max_tokens * token_chars
\* characters long.
C1_ChunkWithinLimit ==
    (pc \in {"split_loop", "split_done"} /\ max_tokens > 0 /\ token_chars > 0)
        => \A i \in 1..Len(chunks) :
              /\ BodyLen(chunks[i]) >= 0
              /\ BodyLen(chunks[i]) <= max_tokens * token_chars

\* a returned chunk that fills the limit exactly, after an earlier chunk
C1_Witness ==
    /\ pc = "split_done"
    /\ max_tokens > 0 /\ token_chars > 0
    /\ Len(chunks) >= 2
    /\ \E i \in 1..Len(chunks) : BodyLen(chunks[i]) = Limit
    /\ \E i \in 1..Len(chunks) : BodyLen(chunks[i]) < Limit

\* " ".join(s.split()): runs of whitespace become one space, the ends trimmed
WhitespaceNormalize(s) == JoinWords(SplitWords(s))

\* s with every whitespace character removed
NoSpaces(s) == SelectSeq(s, LAMBDA c : ~IsSpace(c))

\* the characters of the returned chunks, one chunk after the other
Reassembled == Join([i \in 1..Len(chunks) |-> Expand(chunks[i])])

\* a chunk boundary of the returned list that falls between two
\* non-whitespace characters of the text
WordCut ==
    \E k \in 1..(Len(chunks) - 1) :
        /\ k * max_chars < TLen(text)
        /\ ~IsSpace(CharAt(text, k * max_chars))
        /\ ~IsSpace(CharAt(text, k * max_chars + 1))

\* C2 as stated: with max_tokens * token_chars >= 1, the returned chunks
\* concatenated in order and whitespace-normalized equal the
\* whitespace-normalized text.
C2_ReassemblyAsStated ==
    (pc = "split_done" /\ Limit >= 1)
        => WhitespaceNormalize(Reassembled) = WhitespaceNormalize(Expand(text))

\* C2 amended: the reassembled chunks and the text hold the same
\* non-whitespace characters in the same order, and their whitespace-normalized
\* forms are equal exactly when no chunk boundary falls between two
\* non-whitespace characters (the marker appended at such a boundary breaks
\* the word in two).
C2_Reassembly ==
    (pc = "split_done" /\ Limit >= 1)
        => /\ NoSpaces(Reassembled) = NoSpaces(Expand(text))
           /\ (WhitespaceNormalize(Reassembled) = WhitespaceNormalize(Expand(text)))
                 <=> ~WordCut

\* several chunks, words on both sides of a boundary, and no word cut
C2_Witness ==
    /\ pc = "split_done"
    /\ Limit >= 1
    /\ Len(chunks) >= 2
    /\ ~WordCut
    /\ Len(SplitWords(Expand(text))) >= 2
    /\ \A i \in 1..Len(chunks) : TLen(chunks[i]) > 2

\* ceil(n / d) for d >= 1
CeilDiv(n, d) == (n + d - 1) \div d

\* c is the slice t[first:last] with its trailing whitespace removed and two
\* newlines after it: its first n characters are those of t from first on,
\* the n-th is no whitespace, and what is left of the slice is whitespace
IsChunkOf(c, t, first, last) ==
    LET n == TLen(c) - 2
        rest == PySlice(t, first + n, last)
    IN  /\ 0 <= n /\ n <= last - first
        /\ PySlice(c, 0, n) = PySlice(t, first, first + n)
        /\ CharAt(c, n + 1) = "\n" /\ CharAt(c, n + 2) = "\n"
        /\ n > 0 => ~IsSpace(CharAt(c, n))
        /\ \A k \in 1..Len(rest) : IsSpace(rest[k][1])

\* C3: with max_chars >= 1 the function returns ceil(len(text) / max_chars)
\* chunks, the i-th the i-th fixed-width slice of the text with its trailing
\* whitespace removed and "\n\n" appended; the empty text gives the empty
\* list; 30000 characters under the limit of 28000 give 2 chunks, the second
\* built from the remaining 2000 characters.
C3_FixedWidthSlices ==
    pc = "split_done" =>
        /\ TLen(text) = 0 => chunks = <<>>
        /\ Limit >= 1 =>
            /\ max_chars = Limit
            /\ Len(chunks) = CeilDiv(TLen(text), max_chars)
            /\ \A i \in 1..Len(chunks) :
                  IsChunkOf(chunks[i], text, (i - 1) * max_chars,
                            Min(i * max_chars, TLen(text)))
        /\ (TLen(text) = 30000 /\ max_tokens = 7000 /\ token_chars = 4) =>
            /\ max_chars = 28000
            /\ Len(chunks) = 2
            /\ TLen(chunks[1]) = 28000 + 2
            /\ TLen(chunks[2]) = 2000 + 2

\* several chunks returned, the last one short, one of them shortened by the whitespace removed
C3_Witness ==
    /\ pc = "split_done"
    /\ Limit >= 1
    /\ Len(chunks) >= 2
    /\ TLen(text) % max_chars # 0
    /\ \E i \in 1..(Len(chunks) - 1) : BodyLen(chunks[i]) < max_chars

\* the loop can end: the text is empty (it has no run) or max_chars >= 1
CanEnd == text = <<>> \/ Limit >= 1

\* C10: the loop ends exactly when the text is empty or
\* max_tokens * token_chars >= 1.  With max_chars >= 1 every iteration
\* increases start, after k iterations start is min(k * max_chars, len(text)),
\* so the loop is left, with start = len(text), after exactly
\* ceil(len(text) / max_chars) iterations, and it is never cut off before.
\* With a non-empty text and max_chars <= 0 start never passes 0, the loop's
\* condition stays true, the function never returns, and every iteration
\* appends one more chunk.
C10_Termination ==
    /\ [](pc = "split_done" =>
            /\ CanEnd
            /\ start = TLen(text)
            /\ Limit >= 1 => Len(chunks) = CeilDiv(TLen(text), max_chars))
    /\ []((pc = "split_loop" /\ CanEnd /\ text # <<>>) =>
            /\ max_chars >= 1
            /\ start = Min(Len(chunks) * max_chars, TLen(text))
            /\ Len(chunks) <= CeilDiv(TLen(text), max_chars)
            /\ start < TLen(text) => Len(chunks) < MaxIter)
    /\ [][(pc = "split_loop" /\ pc' = "split_loop") =>
            /\ Len(chunks') = Len(chunks) + 1
            /\ max_chars >= 1 => (start' > start /\ start' <= TLen(text))
            /\ max_chars <= 0 => (start' <= start /\ start' <= 0)]_vars
    /\ [](~CanEnd =>
            /\ pc # "split_done"
            /\ pc = "split_loop" => (max_chars <= 0 /\ start < TLen(text)))

\* a loop that cannot end, several chunks already appended
C10_Witness ==
    /\ pc = "split_loop"
    /\ ~CanEnd
    /\ max_chars < 0
    /\ Len(chunks) >= 3
    /\ start < 0

----------------------------------------------------------------------------
(* Numbers of cost_estimator: Python's true division makes them fractions.  *)
(* A number is <<numerator, denominator>> in lowest terms, denominator > 0. *)

RECURSIVE GCD(_, _)
GCD(a, b) == IF b = 0 THEN a ELSE GCD(b, a % b)

Abs(n) == IF n < 0 THEN -n ELSE n

Rat(n, d) == LET g == GCD(Abs(n), d) IN <<n \div g, d \div g>>

LCM(a, b) == (a \div GCD(a, b)) * b

RMul(x, y) == Rat(x[1] * y[1], x[2] * y[2])

RDiv(x, y) == Rat(x[1] * y[2], x[2] * y[1])

RAdd(x, y) ==
    LET l == LCM(x[2], y[2])
    IN  Rat(x[1] * (l \div x[2]) + y[1] * (l \div y[2]), l)

RLe(x, y) ==
    LET l == LCM(x[2], y[2])
    IN  x[1] * (l \div x[2]) <= y[1] * (l \div y[2])

----------------------------------------------------------------------------
(* cost_estimator *)

INPUT_TOKEN_CHARS == 4

\* 0.5
INPUT_COST_PER_MILLION == Rat(1, 2)

OUTPUT_TOKENS_PER_SECOND == 32

WORDS_PER_SECOND == 2

OUTPUT_COST_PER_MILLION == 10

\* 1_000_000
MILLION == 1000000

\* the locals of cost_estimator when it returns.  Variants: floor division
\* of the characters, words counted without split().
CostFrameFloorDiv(t) ==
    LET num_chars         == Len(t)
        num_input_tokens  == Rat(num_chars \div INPUT_TOKEN_CHARS, 1)
        input_cost        == RMul(RDiv(num_input_tokens, Rat(MILLION, 1)),
                                  INPUT_COST_PER_MILLION)
        num_words         == Len(SplitWords(t))
        audio_seconds     == RDiv(Rat(num_words, 1), Rat(WORDS_PER_SECOND, 1))
        num_output_tokens == RMul(audio_seconds, Rat(OUTPUT_TOKENS_PER_SECOND, 1))
        output_cost       == RMul(RDiv(num_output_tokens, Rat(MILLION, 1)),
                                  Rat(OUTPUT_COST_PER_MILLION, 1))
        total_cost        == RAdd(input_cost, output_cost)
    IN  [num_chars |-> num_chars, num_input_tokens |-> num_input_tokens,
         input_cost |-> input_cost, num_words |-> num_words,
         audio_seconds |-> audio_seconds,
         num_output_tokens |-> num_output_tokens,
         output_cost |-> output_cost, total_cost |-> total_cost]

CostFrameNoSplit(t) ==
    LET num_chars         == Len(t)
        num_input_tokens  == RDiv(Rat(num_chars, 1), Rat(INPUT_TOKEN_CHARS, 1))
        input_cost        == RMul(RDiv(num_input_tokens, Rat(MILLION, 1)),
                                  INPUT_COST_PER_MILLION)
        num_words         == Len(t)
        audio_seconds     == RDiv(Rat(num_words, 1), Rat(WORDS_PER_SECOND, 1))
        num_output_tokens == RMul(audio_seconds, Rat(OUTPUT_TOKENS_PER_SECOND, 1))
        output_cost       == RMul(RDiv(num_output_tokens, Rat(MILLION, 1)),
                                  Rat(OUTPUT_COST_PER_MILLION, 1))
        total_cost        == RAdd(input_cost, output_cost)
    IN  [num_chars |-> num_chars, num_input_tokens |-> num_input_tokens,
         input_cost |-> input_cost, num_words |-> num_words,
         audio_seconds |-> audio_seconds,
         num_output_tokens |-> num_output_tokens,
         output_cost |-> output_cost, total_cost |-> total_cost]

CostFrame(t) ==
    LET num_chars         == Len(t)
        num_input_tokens  == RDiv(Rat(num_chars, 1), Rat(INPUT_TOKEN_CHARS, 1))
        input_cost        == RMul(RDiv(num_input_tokens, Rat(MILLION, 1)),
                                  INPUT_COST_PER_MILLION)
        num_words         == Len(SplitWords(t))
        audio_seconds     == RDiv(Rat(num_words, 1), Rat(WORDS_PER_SECOND, 1))
        num_output_tokens == RMul(audio_seconds, Rat(OUTPUT_TOKENS_PER_SECOND, 1))
        output_cost       == RMul(RDiv(num_output_tokens, Rat(MILLION, 1)),
                                  Rat(OUTPUT_COST_PER_MILLION, 1))
        total_cost        == RAdd(input_cost, output_cost)
    IN  [num_chars |-> num_chars, num_input_tokens |-> num_input_tokens,
         input_cost |-> input_cost, num_words |-> num_words,
         audio_seconds |-> audio_seconds,
         num_output_tokens |-> num_output_tokens,
         output_cost |-> output_cost, total_cost |-> total_cost]

\* the dict cost_estimator returns
cost_estimator(t) ==
    LET f == CostFrame(t)
    IN  [input |-> f.input_cost, output |-> f.output_cost, total |-> f.total_cost]

\* "hello world"
HelloWorld == <<"h", "e", "l", "l", "o", " ", "w", "o", "r", "l", "d">>

CostChars == {"a", " ", "\n"}

CostTexts == TextsUpTo(CostChars, MaxCostLen) \cup {HelloWorld}

\* cost_estimator called with the next text
CostEstimate ==
    /\ pc = "cost_call"
    /\ LET t == cost_texts[Len(cost_results) + 1]
       IN  /\ cost_frames' = Append(cost_frames, CostFrame(t))
           /\ cost_results' = Append(cost_results, cost_estimator(t))
    /\ pc' = IF Len(cost_results) + 1 = Len(cost_texts)
             THEN "cost_done" ELSE "cost_call"
    /\ UNCHANGED <<cost_texts, splitVars, saveVars, files, pipeVars>>

CostInit ==
    /\ pc = "cost_call"
    /\ cost_texts \in CostTexts \X CostTexts
    /\ cost_frames = <<>>
    /\ cost_results = <<>>
    /\ SplitIdle /\ SaveIdle /\ PipeIdle

CostNext == CostEstimate

CostSpec == CostInit /\ [][CostNext]_vars

----------------------------------------------------------------------------
(* Properties of cost_estimator *)

\* the number of whitespace-delimited words of a text
WordCount(t) ==
    Cardinality({i \in 1..Len(t) : ~IsSpace(t[i]) /\ (i = 1 \/ IsSpace(t[i - 1]))})

\* C8: for two texts, the first no longer and with no more words than the
\* second, each of input, output and total of the first estimate is at most
\* that of the second; texts of equal length have equal input cost and texts
\* of equal word count equal output cost.
C8_Monotone ==
    pc = "cost_done" =>
        LET t1 == cost_texts[1]
            t2 == cost_texts[2]
            r1 == cost_results[1]
            r2 == cost_results[2]
        IN  /\ (Len(t1) <= Len(t2) /\ WordCount(t1) <= WordCount(t2))
                  => /\ RLe(r1.input, r2.input)
                     /\ RLe(r1.output, r2.output)
                     /\ RLe(r1.total, r2.total)
            /\ Len(t1) = Len(t2) => r1.input = r2.input
            /\ WordCount(t1) = WordCount(t2) => r1.output = r2.output

\* a strictly longer text of the same number of words, and so a strictly
\* larger input cost and total at an equal output cost
C8_Witness ==
    /\ pc = "cost_done"
    /\ Len(cost_texts[1]) < Len(cost_texts[2])
    /\ WordCount(cost_texts[1]) = WordCount(cost_texts[2])
    /\ WordCount(cost_texts[1]) = 2
    /\ cost_results[1].input # cost_results[2].input
    /\ cost_results[1].total # cost_results[2].total
    /\ cost_results[1].output = cost_results[2].output

\* C9: input = (len(text) / 4) / 1_000_000 * 0.5, that is 0.125 millionths of
\* a dollar per character; output = ((words / 2) * 32) / 1_000_000 * 10, that
\* is 160 millionths per word; total = input + output.  The empty text costs
\* nothing, and "hello world" has 11 characters, 2.75 input tokens, 2 words
\* and 32 output tokens.
C9_CostFormula ==
    \A k \in 1..Len(cost_results) :
        LET t == cost_texts[k]
            r == cost_results[k]
            f == cost_frames[k]
        IN  /\ r.input = Rat(125 * Len(t), 1000 * MILLION)
            /\ r.output = Rat(160 * WordCount(t), MILLION)
            /\ r.total = RAdd(r.input, r.output)
            /\ r.total = Rat(125 * Len(t) + 160000 * WordCount(t), 1000 * MILLION)
            /\ t = <<>> => (r.input = <<0, 1>> /\ r.output = <<0, 1>>
                              /\ r.total = <<0, 1>>)
            /\ t = HelloWorld =>
                  /\ f.num_chars = 11
                  /\ f.num_input_tokens = <<11, 4>>
                  /\ f.num_words = 2
                  /\ f.audio_seconds = <<1, 1>>
                  /\ f.num_output_tokens = <<32, 1>>
                  /\ r.input = RMul(RDiv(<<11, 4>>, <<MILLION, 1>>), <<1, 2>>)
                  /\ r.output = RMul(RDiv(<<32, 1>>, <<MILLION, 1>>), <<10, 1>>)

\* the estimates of "" and of "hello world", both returned
C9_Witness ==
    /\ pc = "cost_done"
    /\ cost_texts = <<<<>>, HelloWorld>>
    /\ cost_results[1].total = <<0, 1>>
    /\ cost_results[2].total = Rat(11 * 125 + 2 * 160000, 1000 * MILLION)

----------------------------------------------------------------------------
(* save_mp3_file *)

DEFAULT_CHANNELS == 1

DEFAULT_RATE == 24000

DEFAULT_SAMPLE_WIDTH == 2

\* the argument pcm: a list of bytes objects, or one bytes object
PcmList(parts) == [is_list |-> TRUE, value |-> parts]

PcmBytes(b) == [is_list |-> FALSE, value |-> b]

RECURSIVE Reverse(_)
Reverse(q) == IF Len(q) = 0 THEN <<>> ELSE Append(Reverse(Tail(q)), Head(q))

\* pcm after the isinstance test: the parts of a list joined.  Variant: the
\* parts joined last to first.
PcmDataReversed(pcm) == IF pcm.is_list THEN Join(Reverse(pcm.value)) ELSE pcm.value

PcmData(pcm) == IF pcm.is_list THEN Join(pcm.value) ELSE pcm.value

\* the AudioSegment built and exported as mp3
AudioSegment(data, sample_width, frame_rate, channels) ==
    [data |-> data, sample_width |-> sample_width, frame_rate |-> frame_rate,
     channels |-> channels, format |-> "mp3"]

\* the files after save_mp3_file(filename, pcm) with the default parameters
save_mp3_file(fs, filename, pcm) ==
    LET audio == AudioSegment(PcmData(pcm), DEFAULT_SAMPLE_WIDTH, DEFAULT_RATE,
                              DEFAULT_CHANNELS)
    IN  {f \in fs : f.name # filename} \cup {[name |-> filename, audio |-> audio]}

Bytes == {0, 1}

Buffers == TextsUpTo(Bytes, MaxBufLen)

\* save_mp3_file called with the whole list of buffers
SaveList ==
    /\ pc = "save_list"
    /\ files' = save_mp3_file(files, "list.mp3", PcmList(bufs))
    /\ save_log' = Append(save_log, [filename |-> "list.mp3", pcm |-> PcmList(bufs)])
    /\ pc' = IF Len(bufs) = 0 THEN "save_done" ELSE "save_single"
    /\ UNCHANGED <<bufs, splitVars, costVars, pipeVars>>

\* save_mp3_file called with one buffer of the list, not wrapped in a list
SaveSingle ==
    /\ pc = "save_single"
    /\ \E i \in 1..Len(bufs) :
          /\ files' = save_mp3_file(files, "single.mp3", PcmBytes(bufs[i]))
          /\ save_log' = Append(save_log,
                [filename |-> "single.mp3", pcm |-> PcmBytes(bufs[i])])
    /\ pc' = "save_one"
    /\ UNCHANGED <<bufs, splitVars, costVars, pipeVars>>

\* save_mp3_file called with the one-element list holding that buffer
SaveOneElementList ==
    /\ pc = "save_one"
    /\ LET b == save_log[Len(save_log)].pcm.value
       IN  /\ files' = save_mp3_file(files, "one.mp3", PcmList(<<b>>))
           /\ save_log' = Append(save_log,
                 [filename |-> "one.mp3", pcm |-> PcmList(<<b>>)])
    /\ pc' = "save_done"
    /\ UNCHANGED <<bufs, splitVars, costVars, pipeVars>>

SaveInit ==
    /\ pc = "save_list"
    /\ bufs \in TextsUpTo(Buffers, MaxBufs)
    /\ save_log = <<>>
    /\ files = {}
    /\ SplitIdle /\ CostIdle /\ PipeIdle

SaveNext == SaveList \/ SaveSingle \/ SaveOneElementList

SaveSpec == SaveInit /\ [][SaveNext]_vars

----------------------------------------------------------------------------
(* Properties of save_mp3_file *)

\* the audio data written under a name
DataOf(name) == (CHOOSE f \in files : f.name = name).audio.data

Written(name) == \E f \in files : f.name = name

\* the total length of the first k buffers of a list
RECURSIVE LenOfFirst(_, _)
LenOfFirst(parts, k) ==
    IF k = 0 THEN 0 ELSE LenOfFirst(parts, k - 1) + Len(parts[k])

\* data is the parts laid end to end in list order: every byte of every part
\* at its place, and nothing else
IsConcatenation(data, parts) ==
    /\ Len(data) = LenOfFirst(parts, Len(parts))
    /\ \A k \in 1..Len(parts) : \A j \in 1..Len(parts[k]) :
          data[LenOfFirst(parts, k - 1) + j] = parts[k][j]

\* C7: the data save_mp3_file encodes for a list is the buffers of the list
\* end to end in list order ([b1, b2] gives b1 followed by b2, the empty list
\* the empty buffer), and a single buffer b gives the same as the list [b].
C7_Concatenation ==
    /\ \A f \in files : Cardinality({g \in files : g.name = f.name}) = 1
    /\ Written("list.mp3") =>
          /\ IsConcatenation(DataOf("list.mp3"), bufs)
          /\ Len(bufs) = 0 => DataOf("list.mp3") = <<>>
          /\ Len(bufs) = 2 => DataOf("list.mp3") = bufs[1] \o bufs[2]
    /\ Written("single.mp3") =>
          \E k \in 1..Len(save_log) :
              /\ save_log[k].filename = "single.mp3"
              /\ ~save_log[k].pcm.is_list
              /\ DataOf("single.mp3") = save_log[k].pcm.value
    /\ (Written("single.mp3") /\ Written("one.mp3")) =>
          \E f \in files, g \in files :
              /\ f.name = "single.mp3"
              /\ g.name = "one.mp3"
              /\ f.audio = g.audio

\* two different non-empty buffers saved as a list, and one of them saved
\* alone and as a one-element list
C7_Witness ==
    /\ pc = "save_done"
    /\ Len(bufs) = 2
    /\ Len(bufs[1]) > 0 /\ Len(bufs[2]) > 0
    /\ bufs[1] # bufs[2]
    /\ Written("list.mp3") /\ Written("single.mp3") /\ Written("one.mp3")
    /\ DataOf("single.mp3") = bufs[2]
    /\ DataOf("list.mp3") # bufs[2] \o bufs[1]

----------------------------------------------------------------------------
(* The cells that split the text, call the service and save the audio *)

\* "Read in an even tone with a North London accent."
PROMPT_FOR_READING ==
    <<
       "R", "e", "a", "d", " ", "i", "n", " ", "a", "n", " ", "e", "v",
       "e", "n", " ", "t", "o", "n", "e", " ", "w", "i", "t", "h", " ",
       "a", " ", "N", "o", "r", "t", "h", " ", "L", "o", "n", "d", "o",
       "n", " ", "a", "c", "c", "e", "n", "t", "."
    >>

\* f"{PROMPT_FOR_READING}: {chunk}"
Contents(chunk) == TCat(ToText(PROMPT_FOR_READING), TCat(ToText(<<":", " ">>), chunk))

\* the argument of time.sleep
SLEEP_SECONDS == 120

\* the time at which time.sleep returns when called at time t.  Variant: a
\* delay of 60 seconds.
SleepUntilShort(t) == t + 60

SleepUntil(t) == t + SLEEP_SECONDS

\* tts_responses.append(data).  Variant: the buffer put in front.
CollectFront(responses, data) == <<data>> \o responses

Collect(responses, data) == Append(responses, data)

\* where the run goes when a statement of a cell raises: nothing catches it.
\* Variant: the exception swallowed and the loop carried on.
RaiseSwallowed == "sleep"

Raise == "aborted"

\* what a call of the service may come to: it raises, it returns a response
\* that has no audio part, or it returns audio data
Latencies == {1, 7}

AudioData == {<<0, 1>>, <<1, 0>>}

Outcomes ==
    {[kind |-> "error", data |-> <<>>], [kind |-> "no_audio", data |-> <<>>]}
        \cup {[kind |-> "audio", data |-> d] : d \in AudioData}

\* the texts the notebook is run on: the first n characters of paragraphs of
\* 28000 characters each, letters followed by three spaces, the letter
\* changing from one paragraph to the next
DefaultMaxChars == DEFAULT_MAX_TOKENS * DEFAULT_TOKEN_CHARS

RECURSIVE Paragraphs(_)
Paragraphs(k) ==
    IF k = 0 THEN <<>>
    ELSE Paragraphs(k - 1)
            \o << <<IF k % 2 = 1 THEN "a" ELSE "b", DefaultMaxChars - 3>>,
                   <<" ", 3>> >>

PipeText(n) == PySlice(Paragraphs(MaxPipeChunks + 1), 0, n)

ContentLengths ==
    {0, 1} \cup {k * DefaultMaxChars : k \in 1..MaxPipeChunks}
           \cup {k * DefaultMaxChars + 1 : k \in 1..(MaxPipeChunks - 1)}

\* content_by_chunks = split_text_to_chunks(content)
CellSplit ==
    /\ pc = "cell_split"
    /\ content_by_chunks' =
          split_text_to_chunks(content, DEFAULT_MAX_TOKENS, DEFAULT_TOKEN_CHARS)
    /\ pc' = "cell_tts"
    /\ UNCHANGED <<content, tts_responses, idx, response, now, api_calls, sleeps,
                   files, splitVars, costVars, saveVars>>

\* tts_responses = [] and the for loop entered
CellTtsStart ==
    /\ pc = "cell_tts"
    /\ tts_responses' = <<>>
    /\ idx' = 0
    /\ pc' = "loop"
    /\ UNCHANGED <<content, content_by_chunks, response, now, api_calls, sleeps,
                   files, splitVars, costVars, saveVars>>

\* client.models.generate_content for the chunk at idx: the call blocks until
\* the service answers or the call raises
GenerateContent ==
    /\ pc = "loop"
    /\ idx < Len(content_by_chunks)
    /\ \E latency \in Latencies, outcome \in Outcomes :
          /\ api_calls' = Append(api_calls,
                [idx |-> idx, contents |-> Contents(content_by_chunks[idx + 1]),
                 sent |-> now, returned |-> now + latency, outcome |-> outcome])
          /\ now' = now + latency
          /\ IF outcome.kind = "error"
             THEN /\ pc' = Raise
                  /\ UNCHANGED response
             ELSE /\ pc' = "append"
                  /\ response' = outcome
    /\ UNCHANGED <<content, content_by_chunks, tts_responses, idx, sleeps,
                   files, splitVars, costVars, saveVars>>

\* tts_responses.append(response.candidates[0].content.parts[0].inline_data.data)
AppendResponse ==
    /\ pc = "append"
    /\ IF response.kind = "audio"
       THEN /\ tts_responses' = Collect(tts_responses, response.data)
            /\ pc' = "sleep"
       ELSE /\ pc' = Raise
            /\ UNCHANGED tts_responses
    /\ UNCHANGED <<content, content_by_chunks, idx, response, now, api_calls,
                   sleeps, files, splitVars, costVars, saveVars>>

\* time.sleep(120), then the next round of the loop
Sleep ==
    /\ pc = "sleep"
    /\ now' = SleepUntil(now)
    /\ sleeps' = Append(sleeps, [idx |-> idx, from |-> now, to |-> SleepUntil(now)])
    /\ idx' = idx + 1
    /\ pc' = "loop"
    /\ UNCHANGED <<content, content_by_chunks, tts_responses, response, api_calls,
                   files, splitVars, costVars, saveVars>>

\* the loop over the chunks is through
LoopExit ==
    /\ pc = "loop"
    /\ idx >= Len(content_by_chunks)
    /\ pc' = "cell_save"
    /\ UNCHANGED <<pipeVars, files, splitVars, costVars, saveVars>>

\* save_mp3_file(file_name, tts_responses)
CellSave ==
    /\ pc = "cell_save"
    /\ files' = save_mp3_file(files, "<FILE>.mp3", PcmList(tts_responses))
    /\ pc' = "done"
    /\ UNCHANGED <<pipeVars, splitVars, costVars, saveVars>>

Init ==
    /\ pc = "cell_split"
    /\ content \in {PipeText(n) : n \in ContentLengths}
    /\ content_by_chunks = <<>>
    /\ tts_responses = <<>>
    /\ idx = 0
    /\ response = NoResponse
    /\ now = 0
    /\ api_calls = <<>>
    /\ sleeps = <<>>
    /\ SplitIdle /\ CostIdle /\ SaveIdle

Next ==
    \/ CellSplit
    \/ CellTtsStart
    \/ GenerateContent
    \/ AppendResponse
    \/ Sleep
    \/ LoopExit
    \/ CellSave

Spec == Init /\ [][Next]_vars

----------------------------------------------------------------------------
(* Properties of the run *)

\* the name the last cell saves under
OutputFile == "<FILE>.mp3"

\* the cells at rest: no statement of the loop's body half done
AtRest == pc \in {"loop", "cell_save", "done", "aborted"}


\* c is the reading prompt, a colon, a space and then the chunk
IsPrompted(c, chunk) ==
    LET n == Len(PROMPT_FOR_READING)
    IN  /\ TLen(c) = n + 2 + TLen(chunk)
        /\ \A j \in 1..n : CharAt(c, j) = PROMPT_FOR_READING[j]
        /\ CharAt(c, n + 1) = ":" /\ CharAt(c, n + 2) = " "
        /\ PySlice(c, n + 2, TLen(c)) = chunk

\* C4: when the loop over the chunks has completed, tts_responses holds one
\* buffer per chunk, the i-th the data returned by the i-th API call, which
\* was made with the i-th chunk of the text; the file saved holds these
\* buffers end to end in that order.
C4_OrderPreserved ==
    pc \in {"cell_save", "done"} =>
        /\ Len(tts_responses) = Len(content_by_chunks)
        /\ Len(api_calls) = Len(content_by_chunks)
        /\ \A i \in 1..Len(content_by_chunks) :
              /\ IsChunkOf(content_by_chunks[i], content, (i - 1) * 28000,
                           Min(i * 28000, TLen(content)))
              /\ api_calls[i].idx = i - 1
              /\ IsPrompted(api_calls[i].contents, content_by_chunks[i])
              /\ api_calls[i].outcome.kind = "audio"
              /\ tts_responses[i] = api_calls[i].outcome.data
        /\ pc = "done" =>
              /\ Written(OutputFile)
              /\ IsConcatenation(DataOf(OutputFile),
                    [i \in 1..Len(api_calls) |-> api_calls[i].outcome.data])

\* a run over two chunks that the service answered with different audio, saved
C4_Witness ==
    /\ pc = "done"
    /\ Len(content_by_chunks) = 2
    /\ content_by_chunks[1] # content_by_chunks[2]
    /\ tts_responses[1] # tts_responses[2]
    /\ Written(OutputFile)

\* every API call made so far is spaced from the next: the earlier call has
\* returned, and exactly 120 seconds lie between its return and the next call
Spaced ==
    /\ \A k \in 1..Len(api_calls) : api_calls[k].sent <= api_calls[k].returned
    /\ \A k \in 1..(Len(api_calls) - 1) :
          /\ api_calls[k].returned <= api_calls[k + 1].sent
          /\ api_calls[k + 1].sent - api_calls[k].returned = 120
    /\ \A j \in 1..Len(sleeps) : sleeps[j].to - sleeps[j].from = 120

\* the k-th API call was followed by the delay, begun when the call returned
SleptAfter(k) ==
    \E j \in 1..Len(sleeps) :
        /\ sleeps[j].idx = api_calls[k].idx
        /\ sleeps[j].from = api_calls[k].returned

\* C5 as stated: the calls are sequential and 120 seconds apart, and the delay
\* follows every API call whatever the response.
C5_PacedAsStated ==
    /\ Spaced
    /\ AtRest => \A k \in 1..Len(api_calls) : SleptAfter(k)

\* C5 amended: the calls are sequential and exactly 120 seconds lie between
\* the return of one and the next call; the delay follows every API call
\* whose response held audio data, the last call included, and no other: a
\* call that raises, or whose response has no audio part, ends the run with no
\* delay.
C5_Paced ==
    /\ Spaced
    /\ AtRest =>
          /\ \A k \in 1..Len(api_calls) :
                SleptAfter(k) <=> api_calls[k].outcome.kind = "audio"
          /\ Len(sleeps) = Len(tts_responses)

\* two calls made, the second 120 seconds after the first returned, and the
\* delay taken after the last call too
C5_Witness ==
    /\ pc = "cell_save"
    /\ Len(api_calls) = 2
    /\ api_calls[1].returned = 7
    /\ api_calls[2].sent = 127
    /\ Len(sleeps) = 2
    /\ now = api_calls[2].returned + 120

\* the API calls made so far that failed
FailedCalls == {k \in 1..Len(api_calls) : api_calls[k].outcome.kind # "audio"}

\* C6: once the API call for a chunk has failed (it raised, or its response
\* has no audio part) the run aborts there: that call is the last call made,
\* no chunk is called for twice, and no file is written, not even one holding
\* the audio of the earlier chunks.
C6_AbortOnFailure ==
    /\ pc = "aborted" => FailedCalls # {}
    /\ FailedCalls # {} =>
          /\ FailedCalls = {Len(api_calls)}
          /\ pc \in {"append", "aborted"}
          /\ api_calls[Len(api_calls)].outcome.kind = "error" => pc = "aborted"
          /\ \A i, j \in 1..Len(api_calls) :
                api_calls[i].idx = api_calls[j].idx => i = j
          /\ \A i \in 1..Len(api_calls) : api_calls[i].idx <= idx
          /\ Len(tts_responses) = Len(api_calls) - 1
          /\ files = {}

\* the call for the second chunk failed after the first chunk's audio had been
\* collected, with a later chunk never called for
C6_Witness ==
    /\ pc = "aborted"
    /\ Len(content_by_chunks) = 2
    /\ Len(api_calls) = 2
    /\ Len(tts_responses) = 1
    /\ api_calls[2].outcome.kind = "no_audio"
    /\ files = {}

====
